---- MODULE Spec2Model ----
(***************************************************************************)
(* Model of src/main.py: the column reconciler (smart_column_mapping), the *)
(* row coercer (ensure_columns, insert_df_to_table) and the batch ingestor *)
(* (process_uploaded_files, process_zip_file) over the two BigQuery tables *)
(* state_licence and registration.                                         *)
(*                                                                         *)
(* Strings are TLC strings; Len, SubSeq and \o act on them character by    *)
(* character, so lower(), strip(), replace() and re.sub() are computed.    *)
(***************************************************************************)
EXTENDS Integers, Sequences, FiniteSets, TLC

VARIABLES
    store,              \* the rows of the BigQuery tables, by table name
    clock,              \* seconds of datetime.utcnow() into the minute
    pc,                 \* "idle", "files", "zip", "zip_except", "returned"
    files,              \* the files of the running batch, in processing order
    table_name,         \* the table of the running batch
    i,                  \* number of loop iterations completed
    total_rows,         \* total_rows / total
    successful_files,
    log,                \* per visited file: what the loop did with it
    result,             \* the returned (rows, files) pair
    df_in,              \* the table last handed to insert_df_to_table
    df_fixed,           \* the frame last built by insert_df_to_table
    source_columns,     \* arguments and result of the last smart_column_mapping
    expected_cols,
    mapping,
    mpc,                \* "input" until smart_column_mapping has run, then "mapped"
    request,            \* the widgets of search_page when Execute Search was pressed
    where_conditions,   \* the conditions search_page compiled
    found,              \* the rows the search query returned
    search_status       \* how the last run of search_page ended

(***************************************************************************)
(* Python / pandas values that are not text.                               *)
(***************************************************************************)
\* Python None as a mapping entry (no source header is "<None>")
None == "<None>"
\* a missing cell: NaN / None / NaT inside a DataFrame (no cell text is "<NULL>")
NULL == "<NULL>"

(***************************************************************************)
(* str methods                                                             *)
(***************************************************************************)
\* str.lower() on the one-character strings it changes
ToLower ==
    ("A" :> "a") @@ ("B" :> "b") @@ ("C" :> "c") @@ ("D" :> "d") @@ ("E" :> "e") @@ ("F" :>
    "f") @@ ("G" :> "g") @@ ("H" :> "h") @@ ("I" :> "i") @@ ("J" :> "j") @@ ("K" :> "k") @@
    ("L" :> "l") @@ ("M" :> "m") @@ ("N" :> "n") @@ ("O" :> "o") @@ ("P" :> "p") @@ ("Q" :>
    "q") @@ ("R" :> "r") @@ ("S" :> "s") @@ ("T" :> "t") @@ ("U" :> "u") @@ ("V" :> "v") @@
    ("W" :> "w") @@ ("X" :> "x") @@ ("Y" :> "y") @@ ("Z" :> "z")

LowerLetters == {ToLower[c] : c \in DOMAIN ToLower}

Digits == "0123456789"

DigitChars == {"0", "1", "2", "3", "4", "5", "6", "7", "8", "9"}

CharAt(s, n) == SubSeq(s, n, n)

Drop(s, n) == SubSeq(s, n + 1, Len(s))

\* one character of str.lower()
LowerChar(c) == IF c \in DOMAIN ToLower THEN ToLower[c] ELSE c

RECURSIVE lower(_)
lower(s) == IF s = "" THEN "" ELSE LowerChar(CharAt(s, 1)) \o lower(Drop(s, 1))

RECURSIVE lstrip(_)
lstrip(s) == IF s # "" /\ CharAt(s, 1) = " " THEN lstrip(Drop(s, 1)) ELSE s

RECURSIVE rstrip(_)
rstrip(s) == IF s # "" /\ CharAt(s, Len(s)) = " " THEN rstrip(SubSeq(s, 1, Len(s) - 1)) ELSE s

\* str.strip(): surrounding whitespace removed
strip(s) == rstrip(lstrip(s))

StartsWith(s, p) == Len(p) <= Len(s) /\ SubSeq(s, 1, Len(p)) = p

\* str.endswith
EndsWith(s, p) == Len(p) <= Len(s) /\ SubSeq(s, Len(s) - Len(p) + 1, Len(s)) = p

\* str.replace(old, new): left to right, non-overlapping, old non-empty
RECURSIVE replace(_, _, _)
replace(s, old, new) ==
    IF s = "" THEN ""
    ELSE IF StartsWith(s, old) THEN new \o replace(Drop(s, Len(old)), old, new)
    ELSE CharAt(s, 1) \o replace(Drop(s, 1), old, new)

\* re.sub(r'[^a-z0-9]', '', s)
RECURSIVE sub_non_alnum(_)
sub_non_alnum(s) ==
    IF s = "" THEN ""
    ELSE (IF CharAt(s, 1) \in LowerLetters \cup DigitChars THEN CharAt(s, 1) ELSE "") \o sub_non_alnum(Drop(s, 1))

\* a Python list, built once: TLC would otherwise evaluate the constructor of a
\* sequence again at every access
List(s) == s \o <<>>

\* a Python dict, built once
Dict(d) == d @@ <<>>

\* x in list
In(x, list) == \E n \in 1..Len(list) : list[n] = x

\* list.index(x), 1-based, for x in list
index(list, x) == CHOOSE n \in 1..Len(list) : list[n] = x /\ \A j \in 1..(n - 1) : list[j] # x

(***************************************************************************)
(* Schemas: ordered (column, type) pairs, in dict order.                   *)
(***************************************************************************)
STATE_COLS ==
    << <<"FBO NAME", "text">>, <<"ADDRESS", "text">>, <<"DISTT", "text">>,
       <<"STATE", "text">>, <<"KOB", "text">>, <<"CONTACT", "text">>,
       <<"RESPONSIBLE MO", "text">>, <<"Y", "text">>, <<"REF ID", "text">>,
       <<"AMOUNT", "numeric">>, <<"LICENSE", "text">>, <<"COMPLIANCE MO", "text">>,
       <<"EXPIRY", "date">>, <<"source_filename", "text">>,
       <<"ingestion_timestamp", "datetime">> >>

REG_COLS ==
    << <<"refId", "text">>, <<"certificateNo", "text">>, <<"companyName", "text">>,
       <<"addressPremises", "text">>, <<"premiseVillageName", "text">>,
       <<"correspondenceDistrictName", "text">>, <<"stateName", "text">>,
       <<"contactMobile", "text">>, <<"contactPerson", "text">>,
       <<"displayRefId", "text">>, <<"kobNameDetails", "text">>,
       <<"productName", "text">>, <<"expiryDate", "date">>, <<"issuedDate", "date">>,
       <<"talukName", "text">>, <<"pincodePremises", "text">>,
       <<"applicantMobileNo", "text">>, <<"noOfYears", "numeric">>,
       <<"statusId", "text">>, <<"appType", "text">>, <<"amount", "numeric">>,
       <<"source_filename", "text">>, <<"ingestion_timestamp", "datetime">> >>

\* list(expected_cols.keys())
keys(cols) == [n \in 1..Len(cols) |-> cols[n][1]]

\* expected_cols[col]
type_of(cols, col) == cols[CHOOSE n \in 1..Len(cols) : cols[n][1] = col][2]

\* the key set of a schema
KeySet(cols) == {cols[n][1] : n \in 1..Len(cols)}

(***************************************************************************)
(* Column reconciler                                                       *)
(***************************************************************************)
\* the six header variants of one canonical column, in list order
variations(expected_lower) ==
    << expected_lower,
       replace(expected_lower, " ", "_"),
       replace(expected_lower, "_", " "),
       sub_non_alnum(expected_lower),
       strip(replace(expected_lower, "name", "")),
       replace(replace(expected_lower, "no", "number"), "num", "number") >>

\* a canonical column list that is not one of the program's schemas: the function
\* accepts any list of expected columns
PROBE_COLS == << <<"state", "text">>, <<"stateName", "text">> >>

\* the variations of every canonical column: they depend on the column alone and
\* are computed once, not once per call
VariationTable ==
    Dict([e \in KeySet(STATE_COLS) \cup KeySet(REG_COLS) \cup KeySet(PROBE_COLS) |->
             variations(lower(strip(e)))])

\* variations(expected_lower) for expected_col
variations_of(expected_col) ==
    IF expected_col \in DOMAIN VariationTable
    THEN VariationTable[expected_col]
    ELSE variations(lower(strip(expected_col)))

\* the for/else over variations: the header of the first variant found, else None
first_variation(df_columns, df_cols_lower, vars) ==
    IF \E k \in 1..Len(vars) : In(vars[k], df_cols_lower)
    THEN LET k == CHOOSE k \in 1..Len(vars) :
                      /\ In(vars[k], df_cols_lower)
                      /\ \A j \in 1..(k - 1) : ~In(vars[j], df_cols_lower)
         IN df_columns[index(df_cols_lower, vars[k])]
    ELSE None

\* map_one with the case-insensitive hit resolved to the first header, not to idx
map_one_first_header(df_columns, df_cols_lower, expected_col) ==
    LET expected_lower == lower(strip(expected_col))
    IN IF In(expected_col, df_columns) THEN expected_col
       ELSE IF In(expected_lower, df_cols_lower) THEN df_columns[1]
       ELSE first_variation(df_columns, df_cols_lower, variations_of(expected_col))

\* map_one with the exact hit recorded under its lower-cased name
map_one_lowered(df_columns, df_cols_lower, expected_col) ==
    LET expected_lower == lower(strip(expected_col))
    IN IF In(expected_col, df_columns) THEN expected_lower
       ELSE IF In(expected_lower, df_cols_lower)
            THEN df_columns[index(df_cols_lower, expected_lower)]
       ELSE first_variation(df_columns, df_cols_lower, variations_of(expected_col))

\* the body of the loop over expected_columns, for one canonical column
map_one(df_columns, df_cols_lower, expected_col) ==
    LET expected_lower == lower(strip(expected_col))
    IN IF In(expected_col, df_columns) THEN expected_col
       ELSE IF In(expected_lower, df_cols_lower)
            THEN df_columns[index(df_cols_lower, expected_lower)]
       ELSE first_variation(df_columns, df_cols_lower, variations_of(expected_col))

\* smart_column_mapping(df_columns, expected_columns): the dict it returns
smart_column_mapping(df_columns, expected_columns) ==
    LET df_cols_lower == List([n \in 1..Len(df_columns) |-> lower(strip(df_columns[n]))])
    IN Dict([e \in {expected_columns[n] : n \in 1..Len(expected_columns)} |->
                map_one(df_columns, df_cols_lower, e)])

(***************************************************************************)
(* pandas: a DataFrame is its column labels, its index length and one      *)
(* sequence of cells per column.                                           *)
(***************************************************************************)
\* pd.DataFrame()
EmptyFrame == [columns |-> <<>>, nrows |-> 0, data |-> <<>>]

\* df[col] of a frame
column(fr, col) == fr.data[index(fr.columns, col)]

\* a frame with the cells of column col replaced or, for a new label, appended
put_column(fr, col, cells) ==
    IF In(col, fr.columns)
    THEN [fr EXCEPT !.data[index(fr.columns, col)] = cells]
    ELSE [fr EXCEPT !.columns = Append(@, col), !.data = Append(@, cells)]

\* df2[col] = scalar: the scalar is broadcast over the index the frame has
set_scalar(fr, col, v) == put_column(fr, col, [k \in 1..fr.nrows |-> v])

\* the rows of a frame, one cell per column
records(fr) == [k \in 1..fr.nrows |-> [c \in 1..Len(fr.columns) |-> fr.data[c][k]]]

\* the column-wise form of a table read from a file
frame_of(columns, rows) ==
    [columns |-> columns, nrows |-> Len(rows),
     data |-> [c \in 1..Len(columns) |-> [k \in 1..Len(rows) |-> rows[k][c]]]]

RECURSIVE AllDigits(_)
AllDigits(s) == s = "" \/ (CharAt(s, 1) \in DigitChars /\ AllDigits(Drop(s, 1)))

\* text pd.to_numeric parses: an optional sign, digits, optionally a point and digits
IsNumber(s) ==
    LET u == IF s # "" /\ CharAt(s, 1) \in {"-", "+"} THEN Drop(s, 1) ELSE s
    IN /\ u # ""
       /\ \/ AllDigits(u)
          \/ \E d \in 1..Len(u) :
                /\ CharAt(u, d) = "."
                /\ Len(u) > 1
                /\ AllDigits(SubSeq(u, 1, d - 1))
                /\ AllDigits(Drop(u, d))

\* text pd.to_datetime parses: YYYY-MM-DD, optionally followed by " HH:MM:SS"
IsDate(s) ==
    /\ Len(s) \in {10, 19}
    /\ AllDigits(SubSeq(s, 1, 4)) /\ CharAt(s, 5) = "-"
    /\ AllDigits(SubSeq(s, 6, 7)) /\ CharAt(s, 8) = "-"
    /\ AllDigits(SubSeq(s, 9, 10))
    /\ Len(s) = 19 =>
          /\ CharAt(s, 11) = " "
          /\ AllDigits(SubSeq(s, 12, 13)) /\ CharAt(s, 14) = ":"
          /\ AllDigits(SubSeq(s, 15, 16)) /\ CharAt(s, 17) = ":"
          /\ AllDigits(SubSeq(s, 18, 19))

\* pd.to_numeric(series, errors='coerce')
to_numeric(cells) ==
    [k \in 1..Len(cells) |->
        IF cells[k] # NULL /\ IsNumber(strip(cells[k])) THEN strip(cells[k]) ELSE NULL]

\* pd.to_datetime(series, errors='coerce')
to_datetime(cells) ==
    [k \in 1..Len(cells) |-> IF cells[k] # NULL /\ IsDate(cells[k]) THEN cells[k] ELSE NULL]

\* series.astype(str).replace({"nan": None, "None": None})
as_text(cells) ==
    [k \in 1..Len(cells) |->
        LET t == IF cells[k] = NULL THEN "nan" ELSE cells[k]
        IN IF t \in {"nan", "None"} THEN NULL ELSE t]

\* series.dt.strftime("%Y-%m-%d")
strftime_date(cells) ==
    [k \in 1..Len(cells) |-> IF cells[k] = NULL THEN NULL ELSE SubSeq(cells[k], 1, 10)]

\* series.dt.strftime("%Y-%m-%d %H:%M:%S")
strftime_timestamp(cells) ==
    [k \in 1..Len(cells) |->
        IF cells[k] = NULL THEN NULL
        ELSE IF Len(cells[k]) = 10 THEN cells[k] \o " 00:00:00" ELSE cells[k]]

(***************************************************************************)
(* Row coercer                                                             *)
(***************************************************************************)
\* "if source_col and source_col in df.columns" for target_col
has_source(df, mapped, target_col) ==
    /\ mapped[target_col] # None
    /\ mapped[target_col] # ""
    /\ In(mapped[target_col], df.columns)

\* the Series ensure_columns assigns to df2[target_col] when it has a source
coerced(df, cols, mapped, target_col) ==
    IF type_of(cols, target_col) = "NUMERIC"
    THEN to_numeric(column(df, mapped[target_col]))
    ELSE IF type_of(cols, target_col) \in {"DATE", "TIMESTAMP"}
    THEN to_datetime(column(df, mapped[target_col]))
    ELSE as_text(column(df, mapped[target_col]))

\* len(df2.index) after the first n assignments of the loop of ensure_columns:
\* df2 starts as pd.DataFrame() with an empty index; df2[col] = None broadcasts
\* over the index there is and adds no row; df2[col] = Series gives an empty
\* index the index of the Series (columns already there are filled with NaN)
RECURSIVE index_after(_, _, _, _)
index_after(df, cols, mapped, n) ==
    IF n = 0 THEN 0
    ELSE LET before == index_after(df, cols, mapped, n - 1)
         IN IF before = 0 /\ has_source(df, mapped, cols[n][1]) THEN df.nrows ELSE before

\* df2 at the end of ensure_columns: one column per key of expected_cols, in order
ensure_columns(df, cols) ==
    LET mapped == smart_column_mapping(df.columns, keys(cols))
        rows_out == index_after(df, cols, mapped, Len(cols))
    IN [columns |-> keys(cols),
        nrows |-> rows_out,
        data |-> List([c \in 1..Len(cols) |->
                         IF has_source(df, mapped, cols[c][1])
                         THEN List(coerced(df, cols, mapped, cols[c][1]))
                         ELSE [k \in 1..rows_out |-> NULL]])]

\* the "force conversion" loop of insert_df_to_table on the cells of one column
force_cells(cols, col, cells) ==
    IF In(col, keys(cols))
    THEN IF type_of(cols, col) = "DATE" THEN strftime_date(to_datetime(cells))
         ELSE IF type_of(cols, col) = "TIMESTAMP" THEN strftime_timestamp(to_datetime(cells))
         ELSE cells
    ELSE cells

force_conversion(cols, fr) ==
    [fr EXCEPT !.data = [c \in 1..Len(fr.columns) |-> force_cells(cols, fr.columns[c], fr.data[c])]]

\* fixed_frame with the stamp written only where ensure_columns found no source
fixed_frame_unstamped(df, cols, stamp) ==
    LET ensured == ensure_columns(df, cols)
        mapped == smart_column_mapping(df.columns, keys(cols))
        named == IF ~In("source_filename", ensured.columns)
                 THEN set_scalar(ensured, "source_filename", "manual_upload")
                 ELSE ensured
        stamped == IF has_source(df, mapped, "ingestion_timestamp")
                   THEN named
                   ELSE set_scalar(named, "ingestion_timestamp", stamp)
    IN force_conversion(cols, stamped)

\* the frame insert_df_to_table hands to the load job, stamped with stamp
fixed_frame(df, cols, stamp) ==
    LET ensured == ensure_columns(df, cols)
        named == IF ~In("source_filename", ensured.columns)
                 THEN set_scalar(ensured, "source_filename", "manual_upload")
                 ELSE ensured
        stamped == set_scalar(named, "ingestion_timestamp", stamp)
    IN force_conversion(cols, stamped)

(***************************************************************************)
(* State                                                                   *)
(***************************************************************************)
ivars == <<store, clock, pc, files, table_name, i, total_rows, successful_files, log,
           result, df_in, df_fixed>>

mvars == <<source_columns, expected_cols, mapping, mpc>>

svars == <<request, where_conditions, found, search_status>>

vars == <<store, clock, pc, files, table_name, i, total_rows, successful_files, log,
          result, df_in, df_fixed, source_columns, expected_cols, mapping, mpc,
          request, where_conditions, found, search_status>>

Tables == {"state_licence", "registration"}

\* expected_cols = STATE_COLS if table_name == "state_licence" else REG_COLS
cols_of(t) == IF t = "state_licence" THEN STATE_COLS ELSE REG_COLS

Schemas == {STATE_COLS, REG_COLS}

(***************************************************************************)
(* Inputs: uploaded files. A file is its name, whether pandas can decode   *)
(* it, and the table pandas reads from it.                                 *)
(***************************************************************************)
\* most files in one batch
MaxFiles == 3

FileState ==
    [name |-> "state.csv", corrupt |-> FALSE,
     columns |-> <<"REF ID", "Amount", "EXPIRY">>,
     rows |-> << <<"R1", "100", "2024-01-31">>, <<"R2", "abc", "soon">> >>]

FileReg ==
    [name |-> "reg.xlsx", corrupt |-> FALSE,
     columns |-> <<"refid", "noOfYears", "source_file", "ingestion_timestamp">>,
     rows |-> << <<"X1", NULL, "march.xlsx", "1999-01-01 00:00:00">> >>]

FileOther ==
    [name |-> "other.csv", corrupt |-> FALSE,
     columns |-> <<"foo", "bar">>,
     rows |-> << <<"1", "nan">>, <<"2", "None">> >>]

FileCorrupt ==
    [name |-> "broken.csv", corrupt |-> TRUE, columns |-> <<>>, rows |-> <<>>]

FileNotes ==
    [name |-> "notes.txt", corrupt |-> FALSE, columns |-> <<>>, rows |-> <<>>]

\* what st.file_uploader(type=["csv", "xlsx", "xls"]) lets through
UploadCatalog == {FileState, FileReg, FileOther, FileCorrupt}

\* members of an archive
ZipCatalog == UploadCatalog \cup {FileNotes}

RECURSIVE SeqsUpTo(_, _)
SeqsUpTo(S, n) ==
    IF n = 0 THEN {<<>>}
    ELSE LET shorter == SeqsUpTo(S, n - 1)
         IN shorter \cup {Append(q, x) : q \in {p \in shorter : Len(p) = n - 1}, x \in S}

UploadBatches == SeqsUpTo(UploadCatalog, MaxFiles) \ {<<>>}

ZipArchives == SeqsUpTo(ZipCatalog, MaxFiles)

\* what the store call of one insert_df_to_table does
InsertOutcomes == {"ok", "no_client", "load_error"}

(***************************************************************************)
(* Clock                                                                   *)
(***************************************************************************)
TwoDigits(n) == CharAt(Digits, (n \div 10) + 1) \o CharAt(Digits, (n % 10) + 1)

\* datetime.utcnow().strftime("%Y-%m-%d %H:%M:%S"), clock seconds into the minute
utcnow_text(t) == "2025-06-01 12:00:" \o TwoDigits(t)

(***************************************************************************)
(* Batch ingestor                                                          *)
(***************************************************************************)
\* pd.read_csv / pd.read_excel on a decodable file
read_table(f) == frame_of(f.columns, f.rows)

\* f.lower().endswith((".csv", ".xlsx", ".xls"))
is_tabular(name) ==
    \/ EndsWith(lower(name), ".csv")
    \/ EndsWith(lower(name), ".xlsx")
    \/ EndsWith(lower(name), ".xls")

\* the list comprehension filtering z.namelist()
RECURSIVE namelist(_)
namelist(members) ==
    IF members = <<>> THEN <<>>
    ELSE (IF is_tabular(members[1].name) THEN <<members[1]>> ELSE <<>>)
             \o namelist(Tail(members))

\* a stored row without its last cell, ingestion_timestamp
sans_stamp(row) == SubSeq(row, 1, Len(row) - 1)

\* Insert with the load job skipping rows the table already holds
Insert_deduplicating(f, outcome) ==
    /\ df_in' = read_table(f)
    /\ IF outcome = "no_client"
       THEN UNCHANGED <<store, clock, df_fixed, mvars>>
       ELSE /\ df_fixed' = fixed_frame(df_in', cols_of(table_name), utcnow_text(clock))
            /\ clock' = clock + 1
            /\ source_columns' = f.columns
            /\ expected_cols' = cols_of(table_name)
            /\ mapping' = smart_column_mapping(f.columns, keys(cols_of(table_name)))
            /\ mpc' = "mapped"
            /\ store' = IF outcome = "ok"
                        THEN LET held == store[table_name]
                                 fresh(r) == \A k \in 1..Len(held) :
                                                 sans_stamp(held[k]) # sans_stamp(r)
                             IN [store EXCEPT ![table_name] =
                                    held \o SelectSeq(records(df_fixed'), fresh)]
                        ELSE store

\* Insert with the load job replacing the table (WRITE_TRUNCATE)
Insert_truncating(f, outcome) ==
    /\ df_in' = read_table(f)
    /\ IF outcome = "no_client"
       THEN UNCHANGED <<store, clock, df_fixed, mvars>>
       ELSE /\ df_fixed' = fixed_frame(df_in', cols_of(table_name), utcnow_text(clock))
            /\ clock' = clock + 1
            /\ source_columns' = f.columns
            /\ expected_cols' = cols_of(table_name)
            /\ mapping' = smart_column_mapping(f.columns, keys(cols_of(table_name)))
            /\ mpc' = "mapped"
            /\ store' = IF outcome = "ok"
                        THEN [store EXCEPT ![table_name] = records(df_fixed')]
                        ELSE store

\* insert_df_to_table(df, table_name, expected_cols) on the table read from f: the
\* store, the clock and the locals kept for inspection
Insert(f, outcome) ==
    /\ df_in' = read_table(f)
    /\ IF outcome = "no_client"
       THEN UNCHANGED <<store, clock, df_fixed, mvars>>
       ELSE /\ df_fixed' = fixed_frame(df_in', cols_of(table_name), utcnow_text(clock))
            /\ clock' = clock + 1
            /\ source_columns' = f.columns
            /\ expected_cols' = cols_of(table_name)
            /\ mapping' = smart_column_mapping(f.columns, keys(cols_of(table_name)))
            /\ mpc' = "mapped"
            /\ store' = IF outcome = "ok"
                        THEN [store EXCEPT ![table_name] = @ \o records(df_fixed')]
                        ELSE store

\* insert_result with len(df_fixed) returned from the except clause too
insert_result_unguarded(outcome) == IF outcome = "no_client" THEN 0 ELSE df_fixed'.nrows

\* the value insert_df_to_table returns: len(df_fixed) once the load job is done,
\* 0 without a client or when the load job raises
insert_result(outcome) == IF outcome = "ok" THEN df_fixed'.nrows ELSE 0

\* the entry the loop leaves for a file whose insert returned
Visited(f, outcome, rows) ==
    [name |-> f.name, read |-> TRUE, insert |-> outcome, rows |-> rows,
     message |-> "success"]

\* the entry the loop leaves for a file pandas could not read
Unreadable(f) ==
    [name |-> f.name, read |-> FALSE, insert |-> "none", rows |-> 0, message |-> "error"]

\* a fresh run of the script: nothing is left of the locals of the run before
fresh_run ==
    /\ i' = 0
    /\ total_rows' = 0
    /\ successful_files' = 0
    /\ log' = <<>>
    /\ result' = <<0, 0>>
    /\ df_in' = EmptyFrame
    /\ df_fixed' = EmptyFrame
    /\ source_columns' = <<>>
    /\ expected_cols' = STATE_COLS
    /\ mapping' = <<>>
    /\ mpc' = "input"

\* no search has run in this run of the script
no_search ==
    /\ request' = None
    /\ where_conditions' = <<>>
    /\ found' = <<>>
    /\ search_status' = "none"

\* process_uploaded_files(batch, t), up to the loop
files_entry(batch, t) ==
    /\ files' = batch
    /\ table_name' = t
    /\ pc' = "files"
    /\ fresh_run
    /\ no_search
    /\ UNCHANGED <<store, clock>>

\* process_uploaded_files(files, table_name), up to the loop
StartFiles ==
    /\ pc = "idle"
    /\ \E batch \in UploadBatches, t \in Tables : files_entry(batch, t)

\* one iteration of the loop of process_uploaded_files: its try and its except
FilesStep ==
    /\ pc = "files"
    /\ i < Len(files)
    /\ LET f == files[i + 1]
       IN IF f.corrupt
          THEN /\ log' = Append(log, Unreadable(f))
               /\ UNCHANGED <<store, clock, total_rows, successful_files, df_in, df_fixed,
                              mvars>>
          ELSE \E outcome \in InsertOutcomes :
                  /\ Insert(f, outcome)
                  /\ total_rows' = total_rows + insert_result(outcome)
                  /\ successful_files' = successful_files + 1
                  /\ log' = Append(log, Visited(f, outcome, insert_result(outcome)))
    /\ i' = i + 1
    /\ UNCHANGED <<pc, files, table_name, result, svars>>

\* the end of either function: return total_rows, successful_files
Return ==
    /\ \/ pc \in {"files", "zip"} /\ i = Len(files)
       \/ pc = "zip_except"
    /\ pc' = "returned"
    /\ result' = <<total_rows, successful_files>>
    /\ UNCHANGED <<store, clock, files, table_name, i, total_rows, successful_files, log,
                   df_in, df_fixed, mvars, svars>>

\* process_zip_file(uploaded_zip, t), up to the loop; a file that is no archive
\* makes zipfile.ZipFile raise into the function's except
zip_entry(members, t, valid) ==
    /\ table_name' = t
    /\ files' = IF valid THEN namelist(members) ELSE <<>>
    /\ pc' = IF valid THEN "zip" ELSE "zip_except"
    /\ fresh_run
    /\ no_search
    /\ UNCHANGED <<store, clock>>

\* process_zip_file(uploaded_zip, table_name), up to the loop
StartZip ==
    /\ pc = "idle"
    /\ \E members \in ZipArchives, t \in Tables, valid \in BOOLEAN :
          zip_entry(members, t, valid)

\* one iteration of the loop of process_zip_file; a read that raises leaves the
\* loop for the except clause of the function
ZipStep ==
    /\ pc = "zip"
    /\ i < Len(files)
    /\ LET f == files[i + 1]
       IN IF f.corrupt
          THEN /\ pc' = "zip_except"
               /\ log' = Append(log, Unreadable(f))
               /\ UNCHANGED <<store, clock, total_rows, successful_files, df_in, df_fixed,
                              mvars>>
          ELSE \E outcome \in InsertOutcomes :
                  /\ Insert(f, outcome)
                  /\ total_rows' = total_rows + insert_result(outcome)
                  /\ successful_files' = successful_files + 1
                  /\ log' = Append(log, Visited(f, outcome, insert_result(outcome)))
                  /\ pc' = pc
    /\ i' = i + 1
    /\ UNCHANGED <<files, table_name, result, svars>>

IngestInit ==
    /\ store = [t \in Tables |-> <<>>]
    /\ clock = 0
    /\ pc = "idle"
    /\ files = <<>>
    /\ table_name = "state_licence"
    /\ i = 0
    /\ total_rows = 0
    /\ successful_files = 0
    /\ log = <<>>
    /\ result = <<0, 0>>
    /\ df_in = EmptyFrame
    /\ df_fixed = EmptyFrame
    /\ request = None
    /\ where_conditions = <<>>
    /\ found = <<>>
    /\ search_status = "none"

Init ==
    /\ IngestInit
    /\ source_columns = <<>>
    /\ expected_cols = STATE_COLS
    /\ mapping = <<>>
    /\ mpc = "input"

Next == StartFiles \/ FilesStep \/ StartZip \/ ZipStep \/ Return

Spec == Init /\ [][Next]_vars

(***************************************************************************)
(* Search: the conditions search_page compiles and what the store answers   *)
(***************************************************************************)
\* LIMIT of the search query
RowCap == 5000

\* LIMIT of the sample query
SampleCap == 1000

\* available_cols[:9]
FilterCap == 9

\* fewer unique values than this give a dropdown, else a text input
DropdownCap == 50

\* INTERVAL 7 DAY
RecentDays == 7

\* primary_keys of a table
primary_keys(tbl) ==
    IF tbl = "state_licence" THEN <<"REF ID", "LICENSE">> ELSE <<"refId", "certificateNo">>

\* expiry_col of a table
expiry_col(tbl) == IF tbl = "state_licence" THEN "EXPIRY" ELSE "expiryDate"

\* the position of every column in the rows of a table
ColumnIndex ==
    Dict([tbl \in Tables |->
             Dict([c \in KeySet(cols_of(tbl)) |-> index(keys(cols_of(tbl)), c)])])

\* the value a stored row of tbl has in column col
cell(tbl, row, col) == row[ColumnIndex[tbl][col]]

Min(a, b) == IF a <= b THEN a ELSE b

DigitValue ==
    ("0" :> 0) @@ ("1" :> 1) @@ ("2" :> 2) @@ ("3" :> 3) @@ ("4" :> 4) @@
    ("5" :> 5) @@ ("6" :> 6) @@ ("7" :> 7) @@ ("8" :> 8) @@ ("9" :> 9)

\* int() of a text of digits
RECURSIVE to_int(_)
to_int(s) ==
    IF s = "" THEN 0
    ELSE 10 * to_int(SubSeq(s, 1, Len(s) - 1)) + DigitValue[CharAt(s, Len(s))]

\* days before the first of each month of a common year
DaysBefore == <<0, 31, 59, 90, 120, 151, 181, 212, 243, 273, 304, 334>>

\* the day number of the date a "YYYY-MM-DD..." text starts with
day_number(s) ==
    LET y == to_int(SubSeq(s, 1, 4))
        m == to_int(SubSeq(s, 6, 7))
        d == to_int(SubSeq(s, 9, 10))
        leap == (y % 4 = 0 /\ y % 100 # 0) \/ y % 400 = 0
        py == y - 1
    IN 365 * py + (py \div 4) - (py \div 100) + (py \div 400)
         + DaysBefore[m] + (IF leap /\ m > 2 THEN 1 ELSE 0) + d

\* the second of the day of a "YYYY-MM-DD HH:MM:SS" text
second_of_day(s) ==
    3600 * to_int(SubSeq(s, 12, 13)) + 60 * to_int(SubSeq(s, 15, 16))
        + to_int(SubSeq(s, 18, 19))

\* a < b for two timestamps in text
stamp_lt(a, b) ==
    \/ day_number(a) < day_number(b)
    \/ day_number(a) = day_number(b) /\ second_of_day(a) < second_of_day(b)

\* text LIKE pattern: % stands for any run of characters, _ for any one character
RECURSIVE like(_, _)
like(s, p) ==
    IF p = "" THEN s = ""
    ELSE IF CharAt(p, 1) = "%"
    THEN \E k \in 0..Len(s) : like(Drop(s, k), Drop(p, 1))
    ELSE /\ s # ""
         /\ CharAt(p, 1) \in {"_", CharAt(s, 1)}
         /\ like(Drop(s, 1), Drop(p, 1))

\* "%" in value
has_percent(v) == \E k \in 1..Len(v) : CharAt(v, k) = "%"

\* the condition fragments of where_conditions
Like(col, pattern) == [op |-> "LIKE", col |-> col, arg |-> pattern]

Equals(col, v) == [op |-> "=", col |-> col, arg |-> v]

Both(a, b) == [op |-> "AND", left |-> a, right |-> b]

BeforeToday(col) == [op |-> "< CURRENT_DATE()", col |-> col]

Recent == [op |-> "> TIMESTAMP_SUB", col |-> "ingestion_timestamp"]

DateIs(col, d) == [op |-> "DATE() =", col |-> col, arg |-> d]

\* search_terms both empty, no quick filter, no advanced filter, no source, no dates
EmptyRequest(tbl) ==
    [table |-> tbl, search_terms |-> <<"", "">>, show_expired |-> FALSE,
     show_recent |-> FALSE, filter_options |-> <<>>, source_filter |-> "",
     date_filter |-> None, expiry_date_filter |-> None]

\* pk_conditions: one LIKE per non-empty term, in the order of the terms
pk_conditions(req) ==
    LET pk == primary_keys(req.table)
        one(n) == IF req.search_terms[n] # ""
                  THEN <<Like(pk[n], "%" \o req.search_terms[n] \o "%")>>
                  ELSE <<>>
    IN one(1) \o one(2)

\* what the primary-key search adds to where_conditions
pk_clause(pkc) ==
    IF Len(pkc) = 1 THEN <<pkc[1]>>
    ELSE IF Len(pkc) = 2 THEN <<Both(pkc[1], pkc[2])>>
    ELSE <<>>

\* one advanced filter
advanced(opt) ==
    IF has_percent(opt[2]) THEN Like(opt[1], opt[2]) ELSE Equals(opt[1], opt[2])

\* where_conditions of a request, in the order the code appends them
compile(req) ==
    pk_clause(pk_conditions(req))
      \o (IF req.show_expired THEN <<BeforeToday(expiry_col(req.table))>> ELSE <<>>)
      \o (IF req.show_recent THEN <<Recent>> ELSE <<>>)
      \o [n \in 1..Len(req.filter_options) |-> advanced(req.filter_options[n])]
      \o (IF req.source_filter # ""
          THEN <<Like("source_filename", "%" \o req.source_filter \o "%")>> ELSE <<>>)
      \o (IF req.date_filter # None
          THEN <<DateIs("ingestion_timestamp", req.date_filter)>> ELSE <<>>)
      \o (IF req.expiry_date_filter # None
          THEN <<DateIs(expiry_col(req.table), req.expiry_date_filter)>> ELSE <<>>)

\* whether a stored row satisfies one condition at instant now; a comparison with
\* a null, or with a text that is no date, is not satisfied
RECURSIVE holds(_, _, _, _)
holds(tbl, row, c, now) ==
    IF c.op = "AND" THEN holds(tbl, row, c.left, now) /\ holds(tbl, row, c.right, now)
    ELSE LET v == cell(tbl, row, c.col)
         IN /\ v # NULL
            /\ IF c.op = "LIKE" THEN like(v, c.arg)
               ELSE IF c.op = "=" THEN v = c.arg
               ELSE IF c.op = "< CURRENT_DATE()"
               THEN IsDate(v) /\ day_number(v) < day_number(now)
               ELSE IF c.op = "> TIMESTAMP_SUB"
               THEN /\ IsDate(v) /\ Len(v) > 10
                    /\ \/ day_number(v) > day_number(now) - RecentDays
                       \/ /\ day_number(v) = day_number(now) - RecentDays
                          /\ second_of_day(v) > second_of_day(now)
               ELSE IsDate(v) /\ SubSeq(v, 1, 10) = c.arg

\* WHERE where_clause: the conjunction of the conditions, "1=1" when there is none
matches(tbl, row, conds, now) == \A n \in 1..Len(conds) : holds(tbl, row, conds[n], now)

\* the ingestion_timestamp of a stored row
stamp_of(row) == row[Len(row)]

RECURSIVE Reverse(_)
Reverse(q) == IF q = <<>> THEN <<>> ELSE Append(Reverse(Tail(q)), Head(q))

\* ORDER BY ingestion_timestamp ascending, the mistaken direction
RECURSIVE order_by_stamp_asc(_, _)
order_by_stamp_asc(rows, ties) ==
    IF rows = <<>> THEN <<>>
    ELSE LET top == CHOOSE k \in 1..Len(rows) :
                        \A j \in 1..Len(rows) : ~stamp_lt(stamp_of(rows[j]), stamp_of(rows[k]))
             oldest(r) == stamp_of(r) = stamp_of(rows[top])
             newer(r) == stamp_of(r) # stamp_of(rows[top])
             first == SelectSeq(rows, oldest)
         IN (IF ties = "kept" THEN first ELSE Reverse(first))
               \o order_by_stamp_asc(SelectSeq(rows, newer), ties)

\* ORDER BY ingestion_timestamp DESC; the store says nothing about the order of
\* rows with equal stamps: ties are kept in table order or reversed
RECURSIVE order_by_stamp_desc(_, _)
order_by_stamp_desc(rows, ties) ==
    IF rows = <<>> THEN <<>>
    ELSE LET top == CHOOSE k \in 1..Len(rows) :
                        \A j \in 1..Len(rows) : ~stamp_lt(stamp_of(rows[k]), stamp_of(rows[j]))
             newest(r) == stamp_of(r) = stamp_of(rows[top])
             older(r) == stamp_of(r) # stamp_of(rows[top])
             first == SelectSeq(rows, newest)
         IN (IF ties = "kept" THEN first ELSE Reverse(first))
               \o order_by_stamp_desc(SelectSeq(rows, older), ties)

\* SELECT * FROM table WHERE where_clause ORDER BY ingestion_timestamp DESC LIMIT 5000
run_query(tbl, rows, conds, now, ties) ==
    LET hit(r) == matches(tbl, r, conds, now)
        ordered == order_by_stamp_desc(SelectSeq(rows, hit), ties)
    IN SubSeq(ordered, 1, Min(Len(ordered), RowCap))

\* SELECT * FROM table LIMIT 1000
sample_of(rows) == SubSeq(rows, 1, Min(Len(rows), SampleCap))

\* sample[c].dropna().unique()
unique_vals(tbl, sample, c) ==
    {cell(tbl, sample[k], c) : k \in 1..Len(sample)} \ {NULL}

\* available_cols[:9]: the first columns of the sample, other than the excluded
\* ones, that hold a value
available_cols(tbl, sample) ==
    LET usable(c) == /\ c \notin {"id", "source_filename", "ingestion_timestamp"}
                     /\ unique_vals(tbl, sample, c) # {}
        all == SelectSeq(keys(cols_of(tbl)), usable)
    IN SubSeq(all, 1, Min(Len(all), FilterCap))

(***************************************************************************)
(* The portal: uploads, searches and clears against one store, one run of   *)
(* the script after the other.                                             *)
(***************************************************************************)
\* most inserts made in one behaviour
MaxStamps == 2

\* a file holding both primary keys of both tables, every combination of two
\* values of each
FileKeys ==
    [name |-> "keys.csv", corrupt |-> FALSE,
     columns |-> <<"REF ID", "LICENSE", "refId", "certificateNo", "source_file">>,
     rows |-> << <<"A1", "L1", "A1", "L1", "march.xlsx">>,
                 <<"A1", "M2", "A1", "M2", "march.xlsx">>,
                 <<"B2", "L1", "B2", "L1", "april.xlsx">>,
                 <<"B2", "M2", "B2", "M2", "april.xlsx">> >>]

PortalCatalog == {FileKeys, FileState, FileCorrupt}

PortalBatches == SeqsUpTo(PortalCatalog, MaxStamps) \ {<<>>}

\* what the two primary-key text inputs may hold
Terms == {"", "A", "L", "A_"}

\* what a text input of a column with many values may hold
FreeTexts == {"A%"}

\* the values the widget of column c offers
choices(tbl, sample, c) ==
    IF Cardinality(unique_vals(tbl, sample, c)) < DropdownCap
    THEN unique_vals(tbl, sample, c)
    ELSE FreeTexts

\* the widget states Execute Search is pressed with, over a table holding rows
Requests(tbl, rows, now) ==
    LET base == EmptyRequest(tbl)
        sample == sample_of(rows)
        avail == available_cols(tbl, sample)
    IN {[base EXCEPT !.search_terms = <<a, b>>] : a, b \in Terms}
         \cup {[base EXCEPT !.show_expired = TRUE],
               [base EXCEPT !.show_recent = TRUE],
               [base EXCEPT !.source_filter = "march"],
               [base EXCEPT !.date_filter = SubSeq(now, 1, 10)],
               [base EXCEPT !.expiry_date_filter = "2024-01-31"]}
         \cup UNION { {[base EXCEPT !.filter_options = << <<avail[n], v>> >>] :
                          v \in choices(tbl, sample, avail[n])} : n \in 1..Len(avail) }

\* where a handler has ended
Ended == {"returned", "searched", "cleared"}

\* main(): the script is run again and draws the page chosen in the sidebar;
\* nothing but the store is left of the run before
Navigate ==
    /\ pc \in Ended
    /\ pc' = "idle"
    /\ files' = <<>>
    /\ table_name' = "state_licence"
    /\ fresh_run
    /\ no_search
    /\ UNCHANGED <<store, clock>>

\* the upload page, "Process Files" pressed
Upload ==
    /\ pc = "idle"
    /\ \E batch \in PortalBatches, t \in Tables :
          /\ clock + Len(batch) <= MaxStamps
          /\ files_entry(batch, t)

\* the upload page, "Process ZIP" pressed
UploadZip ==
    /\ pc = "idle"
    /\ \E members \in PortalBatches, t \in Tables, valid \in BOOLEAN :
          /\ clock + Len(members) <= MaxStamps
          /\ zip_entry(members, t, valid)

\* search_page, "Execute Search" pressed
Search ==
    /\ pc = "idle"
    /\ \E tbl \in Tables, client \in {"ok", "none"}, sample_ok \in BOOLEAN :
          IF client = "none" \/ ~sample_ok \/ store[tbl] = <<>>
          THEN /\ search_status' = IF client = "none" THEN "no_client"
                                   ELSE IF ~sample_ok THEN "sample_error"
                                   ELSE "no_data"
               /\ request' = None
               /\ where_conditions' = <<>>
               /\ found' = <<>>
          ELSE \E req \in Requests(tbl, store[tbl], utcnow_text(clock)),
                  query_ok \in BOOLEAN, ties \in {"kept", "reversed"} :
                  /\ request' = req
                  /\ where_conditions' = compile(req)
                  /\ found' = IF query_ok
                              THEN run_query(tbl, store[tbl], where_conditions',
                                             utcnow_text(clock), ties)
                              ELSE <<>>
                  /\ search_status' = IF ~query_ok THEN "error"
                                      ELSE IF found' = <<>> THEN "no_records"
                                      ELSE "results"
    /\ pc' = "searched"
    /\ files' = <<>>
    /\ fresh_run
    /\ UNCHANGED <<store, clock, table_name>>

\* the upload page, a "Clear ... Data" button pressed: DELETE FROM table WHERE TRUE
\* once confirmed and with a client, nothing otherwise
Clear ==
    /\ pc = "idle"
    /\ \E t \in Tables, confirm \in BOOLEAN, outcome \in {"ok", "no_client", "error"} :
          store' = IF confirm /\ outcome = "ok" THEN [store EXCEPT ![t] = <<>>] ELSE store
    /\ pc' = "cleared"
    /\ files' = <<>>
    /\ fresh_run
    /\ no_search
    /\ UNCHANGED <<clock, table_name>>

PortalNext ==
    Navigate \/ Upload \/ FilesStep \/ UploadZip \/ ZipStep \/ Return \/ Search \/ Clear

SpecPortal == Init /\ [][PortalNext]_vars

(***************************************************************************)
(* Reconciler on its own: the inputs are drawn in MapInit, Reconcile       *)
(* applies smart_column_mapping to them.                                   *)
(***************************************************************************)
\* longest header list drawn from HeaderPool
MaxHeaders == 2

\* source headers seen in uploads: exact, re-cased, padded, spaced and variant forms
HeaderPool ==
    { "Ref Id", "Company Name", "refid", "REF_ID", "ref id", " RefId ", "company",
      "state", "STATE", "amount", "Amount", "certificateNumber", "applicantMobileNumber",
      "fbo", "source_file" }

\* pandas keeps column labels distinct
Distinct(q) == \A j, k \in 1..Len(q) : j # k => q[j] # q[k]

\* every header some canonical column of cols would accept
AcceptedHeaders(cols) ==
    UNION { {variations_of(cols[n][1])[k] : k \in 1..6} : n \in 1..Len(cols) }

HeaderLists ==
    {q \in SeqsUpTo(HeaderPool, MaxHeaders) : Distinct(q)}
        \cup {keys(STATE_COLS), keys(REG_COLS)}
        \cup {<<h>> : h \in AcceptedHeaders(STATE_COLS) \cup AcceptedHeaders(REG_COLS)}

MapInit ==
    /\ IngestInit
    /\ source_columns \in HeaderLists
    /\ expected_cols \in Schemas \cup {PROBE_COLS}
    /\ mapping = <<>>
    /\ mpc = "input"

Reconcile ==
    /\ mpc = "input"
    /\ mapping' = smart_column_mapping(source_columns, keys(expected_cols))
    /\ mpc' = "mapped"
    /\ UNCHANGED <<source_columns, expected_cols, ivars, svars>>

MapNext == Reconcile

SpecMap == MapInit /\ [][MapNext]_vars

(***************************************************************************)
(* Claims about the reconciler (checked under SpecMap)                     *)
(***************************************************************************)
Matched(m) == {e \in DOMAIN m : m[e] # None}

Injective(m) == \A a, b \in Matched(m) : a # b => m[a] # m[b]

C5_RefIdCompanyNameMatched ==
    (mpc = "mapped" /\ expected_cols = REG_COLS /\ source_columns = <<"Ref Id", "Company Name">>)
        => /\ mapping["refId"] = "Ref Id"
           /\ mapping["companyName"] = "Company Name"
           /\ \A e \in DOMAIN mapping \ {"refId", "companyName"} : mapping[e] = None

\* C6: for both schemas, a header list identical to the canonical names yields the
\* identity mapping: every canonical column maps to itself, none is unmatched.
C6_IdentityMapping ==
    (mpc = "mapped" /\ expected_cols \in Schemas /\ source_columns = keys(expected_cols))
        => /\ DOMAIN mapping = KeySet(expected_cols)
           /\ \A e \in DOMAIN mapping : mapping[e] = e

\* the Registration schema reconciled with its own canonical names
C6_Witness ==
    /\ mpc = "mapped"
    /\ expected_cols = REG_COLS
    /\ source_columns = keys(REG_COLS)
    /\ mapping["certificateNo"] = "certificateNo"

(***************************************************************************)
(* Claims about the batch ingestor and the row coercer (checked under Spec) *)
(***************************************************************************)
\* the positions of the batch holding a file pandas can decode
Decodable == {k \in 1..Len(files) : ~files[k].corrupt}

\* len(df_fixed) for file f against the table of the batch
rows_of(f) == ensure_columns(read_table(f), cols_of(table_name)).nrows

RECURSIVE SumRows(_)
SumRows(K) ==
    IF K = {} THEN 0
    ELSE LET k == CHOOSE k \in K : TRUE
         IN rows_of(files[k]) + SumRows(K \ {k})

\* the last file visited went through ensure_columns: df_in, mapping and df_fixed
\* are the ones of that call
Coerced ==
    /\ Len(log) > 0
    /\ log[Len(log)].insert \in {"ok", "load_error"}
    /\ mpc = "mapped"

\* the cells of canonical column col in df_fixed and the cells of its source in df_in
fixed_cells(col) == column(df_fixed, col)

source_cells(col) == column(df_in, mapping[col])

\* C1: once a batch has returned, every file of it has been visited, whatever
\* failed before it: every decodable file was read, and one whose append went
\* through has its rows in the table.
C1_FailureDoesNotAbortBatch ==
    pc = "returned" =>
        \A k \in 1..Len(files) :
            /\ k <= Len(log)
            /\ log[k].name = files[k].name
            /\ ~files[k].corrupt => log[k].read

\* C2: when every append of the batch goes through, the returned successful-file
\* count is the number of decodable files and the returned total is the sum of
\* the row counts of exactly those files.
C2_CountsOverDecodableFiles ==
    (pc = "returned" /\ \A k \in 1..Len(log) : log[k].insert \in {"ok", "none"}) =>
        /\ result[2] = Cardinality(Decodable)
        /\ result[1] = SumRows(Decodable)

\* C3: a file whose append failed (load job raised, or no client) is not counted
\* in successful_files and is not reported as a success with a row count.
C3_FailedAppendNotCounted ==
    /\ successful_files <= Cardinality({k \in 1..Len(log) : log[k].insert = "ok"})
    /\ \A k \in 1..Len(log) :
          log[k].insert \in {"no_client", "load_error"} => log[k].message # "success"

\* C7: in the frame produced for insertion, a mapped numeric column holds null
\* wherever the source value is empty or is not a number, and a mapped date column
\* holds null wherever the source value is not a date.
C7_UnparseableBecomesNull ==
    Coerced =>
        \A c \in 1..Len(expected_cols) :
            LET col == expected_cols[c][1]
                type == expected_cols[c][2]
            IN (has_source(df_in, mapping, col) /\ type \in {"numeric", "date"}) =>
                  \A k \in 1..df_fixed.nrows :
                      LET v == source_cells(col)[k]
                          parses == /\ v # NULL
                                    /\ IF type = "numeric" THEN IsNumber(strip(v))
                                       ELSE IsDate(v)
                      IN ~parses => fixed_cells(col)[k] = NULL

\* C8: when no source column is reconciled onto source_filename, every row
\* produced for insertion carries source_filename = "manual_upload".
C8_ManualUploadDefault ==
    (Coerced /\ mapping["source_filename"] = None) =>
        \A k \in 1..df_fixed.nrows : fixed_cells("source_filename")[k] = "manual_upload"

\* the instants insert_df_to_table has stamped so far
Stamps == {utcnow_text(t) : t \in 0..(clock - 1)}

\* C9: every row produced for insertion carries, as ingestion_timestamp, the
\* instant taken inside that call of insert_df_to_table, the same for all rows of
\* the file and whatever the source holds; every row of the tables carries the
\* instant of one of the calls made.
C9_StampedAtCoercion ==
    /\ Coerced =>
          \A k \in 1..df_fixed.nrows :
              fixed_cells("ingestion_timestamp")[k] = utcnow_text(clock - 1)
    /\ \A t \in Tables : \A k \in 1..Len(store[t]) :
          store[t][k][Len(cols_of(t))] \in Stamps

\* a file with its own ingestion_timestamp column, reconciled onto the canonical
\* one and holding another instant, has been appended
C9_Witness ==
    /\ Coerced
    /\ log[Len(log)].insert = "ok"
    /\ has_source(df_in, mapping, "ingestion_timestamp")
    /\ df_fixed.nrows > 0
    /\ \E k \in 1..df_in.nrows : source_cells("ingestion_timestamp")[k] = "1999-01-01 00:00:00"
    /\ Len(store[table_name]) > 0

\* C10: the frame produced for insertion has one row per input row and one value
\* per canonical column, also when no header matches, and a successful insert
\* returns the input row count.
C10_ShapePreserved ==
    Coerced =>
        /\ df_fixed.nrows = df_in.nrows
        /\ df_fixed.columns = keys(expected_cols)
        /\ \A c \in 1..Len(df_fixed.data) : Len(df_fixed.data[c]) = df_in.nrows
        /\ log[Len(log)].insert = "ok" => log[Len(log)].rows = df_in.nrows

\* C14: a batch made of the same n-row file twice, both appends succeeding, leaves
\* 2n rows of that file in the table: the rows of the second ingestion repeat the
\* rows of the first, nothing is deduplicated.
C14_ReingestDuplicates ==
    (/\ pc = "returned"
     /\ Len(files) = 2 /\ Len(log) = 2
     /\ files[1] = files[2]
     /\ log[1].insert = "ok" /\ log[2].insert = "ok") =>
        LET n == rows_of(files[1])
            rows == store[table_name]
        IN /\ Len(rows) = 2 * n
           /\ \A k \in 1..n : sans_stamp(rows[n + k]) = sans_stamp(rows[k])

\* the same two-row file has been appended twice
C14_Witness ==
    /\ pc = "returned"
    /\ Len(files) = 2 /\ Len(log) = 2
    /\ files[1] = files[2]
    /\ log[1].insert = "ok" /\ log[2].insert = "ok"
    /\ log[1].rows = 2
    /\ Len(store[table_name]) = 4

\* once a batch has returned, plain or archive, aborted or not, the returned
\* total is the number of rows the batch appended to its table, the other table
\* has received nothing, and every file whose append failed is reported with 0 rows.
TotalIsRowsAppended ==
    pc = "returned" =>
        /\ result[1] = Len(store[table_name])
        /\ \A t \in Tables \ {table_name} : store[t] = <<>>
        /\ \A k \in 1..Len(log) : log[k].insert # "ok" => log[k].rows = 0

\* no rollback: within a batch the rows of a table only grow and the running total
\* never falls
NoRollback ==
    /\ \A t \in Tables : /\ Len(store'[t]) >= Len(store[t])
                          /\ SubSeq(store'[t], 1, Len(store[t])) = store[t]
    /\ i' > 0 => total_rows' >= total_rows

\* C16: for every batch, plain or archive, with failing files or aborted part-way,
\* the returned total is the number of rows the batch appended to its table; rows
\* appended before a failure stay in the table and stay counted, and a file whose
\* append failed contributes 0.
C16_RowConservation == []TotalIsRowsAppended /\ [][NoRollback]_vars

\* an archive aborted on its second member after a first one was appended, and a
\* file whose append failed after that
C16_Witness ==
    /\ pc = "returned"
    /\ Len(log) = 2
    /\ log[1].insert = "ok" /\ log[1].rows > 0
    /\ ~log[2].read
    /\ Len(files) > 2
    /\ result[1] = log[1].rows

(***************************************************************************)
(* Claims about the variants (checked under SpecMap)                        *)
(***************************************************************************)
\* C15: with no exact, case-insensitive or earlier-variant match, the header
\* "certificateNumber" is matched to certificateNo and "applicantMobileNumber" to
\* applicantMobileNo: the canonical name with each "no" replaced by "number".
C15_NumberVariantMatched ==
    (mpc = "mapped" /\ expected_cols = REG_COLS) =>
        /\ source_columns = <<"certificateNumber">> =>
              mapping["certificateNo"] = "certificateNumber"
        /\ source_columns = <<"applicantMobileNumber">> =>
              mapping["applicantMobileNo"] = "applicantMobileNumber"

(***************************************************************************)
(* Claims about search and the store (checked under SpecPortal)             *)
(***************************************************************************)
\* text t occurs in cell v
contains(v, t) ==
    /\ v # NULL
    /\ \E k \in 1..(Len(v) - Len(t) + 1) : SubSeq(v, k, k + Len(t) - 1) = t

\* the query of the last search was executed
Executed == search_status \in {"results", "no_records"}

\* how many times row r occurs in rows
Count(rows, r) == Cardinality({k \in 1..Len(rows) : rows[k] = r})

\* q starts with p
IsPrefix(p, q) == Len(p) <= Len(q) /\ SubSeq(q, 1, Len(p)) = p

\* C11: with nothing but primary-key terms in the request: when both terms are
\* given, the rows found are exactly the rows of the table whose first key column
\* contains T1 and whose second key column contains T2; with one term there is a
\* single contains condition on that term's own column; with none, no condition.
C11_BothKeysMustContain ==
    (Executed /\ request = [EmptyRequest(request.table) EXCEPT
                               !.search_terms = request.search_terms]) =>
        LET tbl == request.table
            pk == primary_keys(tbl)
            T1 == request.search_terms[1]
            T2 == request.search_terms[2]
            rows == store[tbl]
        IN /\ (T1 # "" /\ T2 # "") =>
                 /\ \A k \in 1..Len(found) : In(found[k], rows)
                 /\ \A k \in 1..Len(rows) :
                       In(rows[k], found) <=>
                           /\ contains(cell(tbl, rows[k], pk[1]), T1)
                           /\ contains(cell(tbl, rows[k], pk[2]), T2)
           /\ (T1 # "" /\ T2 = "") => where_conditions = <<Like(pk[1], "%" \o T1 \o "%")>>
           /\ (T1 = "" /\ T2 # "") => where_conditions = <<Like(pk[2], "%" \o T2 \o "%")>>
           /\ (T1 = "" /\ T2 = "") => where_conditions = <<>>

\* C12: a search with an empty request compiles no condition and returns the rows
\* of the table, all of them up to the cap of 5000, each as many times as the table
\* holds it, newest ingestion_timestamp first.
C12_EmptyRequestReturnsAll ==
    (Executed /\ request = EmptyRequest(request.table)) =>
        LET rows == store[request.table]
        IN /\ where_conditions = <<>>
           /\ Len(found) = Min(Len(rows), RowCap)
           /\ Len(rows) <= RowCap =>
                 \A k \in 1..Len(rows) : Count(found, rows[k]) = Count(rows, rows[k])
           /\ \A k \in 1..(Len(found) - 1) :
                 ~stamp_lt(stamp_of(found[k]), stamp_of(found[k + 1]))

\* two files ingested one after the other, then an empty search returning the
\* rows of both, the later file's first
C12_Witness ==
    /\ search_status = "results"
    /\ request = EmptyRequest(request.table)
    /\ Len(found) = Len(store[request.table])
    /\ Len(found) > 2
    /\ stamp_of(found[1]) # stamp_of(found[Len(found)])
    /\ found[1] = store[request.table][Len(found)]

\* what a step of the portal may do to the store
StoreFrame ==
    /\ pc' # "cleared" => \A t \in Tables : IsPrefix(store[t], store'[t])
    /\ pc' = "cleared" => \A t \in Tables : store'[t] \in {store[t], <<>>}
    /\ pc' = "searched" => store' = store
    /\ pc' \in {"files", "zip", "zip_except", "returned"} =>
          \A t \in Tables \ {table_name'} : store'[t] = store[t]

\* C13: the store changes only by append and by full-table clear: outside a clear,
\* every row a table holds stays where it is and as it is; a search leaves the
\* store as it was; an ingestion leaves the table of the other family as it was.
C13_AppendOrClearOnly == [][StoreFrame]_vars

\* a search has returned rows while both tables hold rows of two ingestions
C13_Witness ==
    /\ pc = "searched"
    /\ search_status = "results"
    /\ clock = 2
    /\ \A t \in Tables : store[t] # <<>>

====
